---- MODULE Spec2Model ----
\* Flood propagation engine of src/simulacion.py: the function
\* propagar_inundacion (lines 252-300) and the level loop that drives it
\* (PASO 6, lines 313-348).
\*
\* Units: elevations are whole metres; water levels are kept in half metres
\* (0.5 m -> 1, 1.0 m -> 2, ...), so that every level of niveles_agua is an
\* integer.  Comparisons between the two are made in half metres (Mitades).
\* Cells are <<y, x>> with 0-based indices, as in the source.
EXTENDS Integers, Sequences, FiniteSets, TLC

VARIABLES
    dem,             \* elevation array [shape, data]
    transform,       \* <<transform[0], transform[4]>>: pixel width and height
    rio_mask,        \* uint8 array, 1 on the river
    cuenca_mask,     \* uint8 array, 1 inside the watershed
    pasos,           \* the iteration budget handed to propagar_inundacion
    orden,           \* "codigo": the traversal order of the source; "libre": any
    i,               \* index of the level loop (enumerate, 0-based)
    nivel_agua,      \* level of the running call, in half metres
    semillas,        \* boolean array handed to the call
    inundacion,      \* boolean array built by the call
    puntos_activos,  \* frontier of the running round (sequence of cells)
    visitados,       \* positions of puntos_activos the round has processed
    nuevos_puntos,   \* cells admitted in the running round
    iteracion,       \* loop variable of `for iteracion in range(pasos)`, -1 before
    admitidos,       \* history: the set of cells each finished round admitted
    niveles,         \* the list of levels the loop runs over
    accesos,         \* raw neighbour indices used to index dem / inundacion
    rasters,         \* the masked extents written, one per finished level
    log_data,        \* the log entries appended, one per finished level
    pc,              \* position of the script
    entrada,         \* air-quality script: the function called and its arguments
    salida           \* air-quality script: what the call returned or raised

vars == <<dem, transform, rio_mask, cuenca_mask, pasos, orden, i, nivel_agua, semillas,
          inundacion, puntos_activos, visitados, nuevos_puntos, iteracion,
          admitidos, niveles, accesos, rasters, log_data, pc, entrada, salida>>

----------------------------------------------------------------------------
\* Bounds of the model

\* elevations of the small grids are drawn from 0..MaxElev metres
MaxElev == 2
\* budgets of the small grids are drawn from 0..MaxPasos
MaxPasos == 2
\* the level loop runs over the first NumNiveles entries of niveles_agua
\* largest magnitude of the wind speed and of the dispersion coefficients
MaxMagnitud == 1

NumNiveles == 2

----------------------------------------------------------------------------
\* Program constants

\* niveles_agua = [0.5, 1.0, ..., 6.0, 7.0], in half metres
niveles_agua == <<1, 2, 3, 4, 5, 6, 7, 8, 9, 10, 11, 12, 14>>

\* pasos=100 of the call in the level loop
PASOS == 100

\* the 1.0 of `dem[y, x] - 1.0`, in metres
CaidaMaxima == 1

\* metres to half metres
Mitades(m) == 2 * m

----------------------------------------------------------------------------
\* Arrays

Celdas(shape) == (0 .. shape[1] - 1) \X (0 .. shape[2] - 1)

Arr(shape, f) == [shape |-> shape, data |-> f]

\* np.zeros_like(dem, dtype=bool)
ZerosLike(a) == Arr(a.shape, [c \in Celdas(a.shape) |-> FALSE])

\* One axis of numpy integer indexing: a negative index counts from the end,
\* an index outside -n..n-1 raises IndexError (reported as -1 here).
Indice(k, n) ==
    IF 0 <= k /\ k < n THEN k
    ELSE IF -n <= k /\ k < 0 THEN k + n
    ELSE -1

\* The cell that a[ny, nx] addresses; <<-1, -1>> when numpy raises IndexError.
CeldaIndexada(ny, nx, shape) ==
    LET cy == Indice(ny, shape[1])
        cx == Indice(nx, shape[2])
    IN  IF cy = -1 \/ cx = -1 THEN <<-1, -1>> ELSE <<cy, cx>>

\* np.where(a): the true cells in row-major order
RECURSIVE WhereDesde(_, _)
WhereDesde(a, k) ==
    IF k >= a.shape[1] * a.shape[2] THEN <<>>
    ELSE LET c == <<k \div a.shape[2], k % a.shape[2]>>
         IN  IF a.data[c] THEN <<c>> \o WhereDesde(a, k + 1)
             ELSE WhereDesde(a, k + 1)

NpWhere(a) == WhereDesde(a, 0)

\* rio_mask == 1
IgualAUno(a) == Arr(a.shape, [c \in Celdas(a.shape) |-> a.data[c] = 1])

\* inundacion.astype(np.uint8)
AsUint8(a) == Arr(a.shape, [c \in Celdas(a.shape) |-> IF a.data[c] THEN 1 ELSE 0])

\* numpy broadcasting of two 2-d shapes: on each axis the lengths are equal
\* or one of them is 1; otherwise a * b raises ValueError
Compatibles(sa, sb) ==
    \A k \in 1 .. 2 : sa[k] = sb[k] \/ sa[k] = 1 \/ sb[k] = 1

Max(a, b) == IF a >= b THEN a ELSE b

Abs(n) == IF n < 0 THEN -n ELSE n

\* line 341: abs(transform[0] * transform[4]), the area of one pixel
AreaCeldaSinAbs(t) == t[1] * t[2]
AreaCelda(t) == Abs(t[1] * t[2])

\* line 342: area_km2 = area_m2 / 1e6, kept as the fraction <<area_m2, 10^6>>
EntreUnMillon(area_m2) == <<area_m2, 1000000>>

\* the cell of an array of shape sh that the broadcast cell c reads
Proyectar(c, sh) ==
    <<IF sh[1] = 1 THEN 0 ELSE c[1], IF sh[2] = 1 THEN 0 ELSE c[2]>>

\* a * b, element by element (for broadcast-compatible shapes)
MultiplicarSinMascara(a, b) == a
Multiplicar(a, b) ==
    LET sh == <<Max(a.shape[1], b.shape[1]), Max(a.shape[2], b.shape[2])>>
    IN  Arr(sh, [c \in Celdas(sh) |->
                    a.data[Proyectar(c, a.shape)] * b.data[Proyectar(c, b.shape)]])

\* np.sum(a)
RECURSIVE SumaDesde(_, _)
SumaDesde(a, k) ==
    IF k >= a.shape[1] * a.shape[2] THEN 0
    ELSE a.data[<<k \div a.shape[2], k % a.shape[2]>>] + SumaDesde(a, k + 1)

NpSum(a) == SumaDesde(a, 0)

----------------------------------------------------------------------------
\* propagar_inundacion, piece by piece

\* lines 263-264: a seed that lies outside dem's shape makes
\* inundacion[y, x] = True raise IndexError (np.where yields no negative index)
SemillaFuera(d, s) ==
    \E c \in Celdas(s.shape) : s.data[c] /\ c \notin Celdas(d.shape)

\* lines 256-264: the seeds are marked flooded in an array of dem's shape
SinMarcarSemillas(d, s) == ZerosLike(d)
MarcarSemillas(d, s) ==
    Arr(d.shape, [c \in Celdas(d.shape) |-> c \in Celdas(s.shape) /\ s.data[c]])

\* line 267: range(pasos) still has a value after `it`
QuedanPasosDeMas(it, p) == it + 1 <= p
QuedanPasosSinSigno(it, p) == it + 1 < (IF p < 0 THEN -p ELSE p)
QuedanPasosDeMenos(it, p) == it + 2 < p
QuedanPasosImpares(it, p) == it + 1 < p /\ p % 2 = 1
QuedanPasos(it, p) == it + 1 < p

\* lines 275-276: for dy in [-1, 0, 1]: for dx in [-1, 0, 1]
Deltas == <<-1, 0, 1>>
DireccionesEnCruz ==
    [k \in 1 .. 9 |->
        LET dy == Deltas[((k - 1) \div 3) + 1]
            dx == Deltas[((k - 1) % 3) + 1]
        IN  IF dy # 0 /\ dx # 0 THEN <<0, 0>> ELSE <<dy, dx>>]
Direcciones ==
    [k \in 1 .. 9 |-> <<Deltas[((k - 1) \div 3) + 1], Deltas[((k - 1) % 3) + 1]>>]

\* line 272: elev_actual = dem[y, x] + nivel_agua, in half metres
ElevActualAbsoluta(d, c, nivel) == nivel
ElevActualDoble(d, c, nivel) == Mitades(d.data[c]) + 2 * nivel
ElevActual(d, c, nivel) == Mitades(d.data[c]) + nivel

\* line 283: 0 <= ny < dem.shape[0] and 0 <= nx < dem.shape[1]
SinLimites(ny, nx, shape) == TRUE
LimitesCortos(ny, nx, shape) ==
    0 <= ny /\ ny < shape[1] - 1 /\ 0 <= nx /\ nx < shape[2] - 1
EnLimites(ny, nx, shape) ==
    0 <= ny /\ ny < shape[1] /\ 0 <= nx /\ nx < shape[2]

\* lines 285-289: condicion, for the source cell c and the neighbour n
CondicionSinTecho(st, d, nivel, c, n) ==
    /\ ~st.inundacion.data[n]
    /\ d.data[n] >= d.data[c] - CaidaMaxima
CondicionTechoInvertido(st, d, nivel, c, n) ==
    /\ ~st.inundacion.data[n]
    /\ Mitades(d.data[n]) > ElevActual(d, c, nivel)
    /\ d.data[n] >= d.data[c] - CaidaMaxima
CondicionSinCaida(st, d, nivel, c, n) ==
    /\ ~st.inundacion.data[n]
    /\ Mitades(d.data[n]) <= ElevActual(d, c, nivel)
CondicionUnaPorRonda(st, d, nivel, c, n) ==
    /\ st.nuevos = <<>>
    /\ ~st.inundacion.data[n]
    /\ Mitades(d.data[n]) <= ElevActual(d, c, nivel)
    /\ d.data[n] >= d.data[c] - CaidaMaxima
CondicionConMascara(st, d, nivel, c, n) ==
    /\ ~st.inundacion.data[n]
    /\ Mitades(d.data[n]) <= ElevActual(d, c, nivel)
    /\ d.data[n] >= d.data[c] - CaidaMaxima
    /\ cuenca_mask.data[n] = 1
CondicionCaidaConNivel(st, d, nivel, c, n) ==
    /\ ~st.inundacion.data[n]
    /\ Mitades(d.data[n]) <= ElevActual(d, c, nivel)
    /\ Mitades(d.data[n]) >= Mitades(d.data[c] - CaidaMaxima) - nivel
Condicion(st, d, nivel, c, n) ==
    /\ ~st.inundacion.data[n]
    /\ Mitades(d.data[n]) <= ElevActual(d, c, nivel)
    /\ d.data[n] >= d.data[c] - CaidaMaxima

\* lines 292-293: the neighbour is marked and joins the next frontier
AdmitirSinMarcar(st, n) == [st EXCEPT !.nuevos = Append(@, n)]
Admitir(st, n) ==
    [st EXCEPT !.inundacion.data[n] = TRUE, !.nuevos = Append(@, n)]

\* lines 277-293: one neighbour of the frontier cell c.  st carries the array
\* being built, the next frontier, the indices used and whether an IndexError
\* was raised (which ends the call).
Examinar(st, d, nivel, c, dir) ==
    LET ny == c[1] + dir[1]
        nx == c[2] + dir[2]
    IN  IF st.error \/ (dir[1] = 0 /\ dir[2] = 0) THEN st
        ELSE IF ~EnLimites(ny, nx, d.shape) THEN st
        ELSE LET n   == CeldaIndexada(ny, nx, d.shape)
                 st1 == [st EXCEPT !.accesos = @ \cup {<<ny, nx>>}]
             IN  IF n = <<-1, -1>> THEN [st1 EXCEPT !.error = TRUE]
                 ELSE IF Condicion(st1, d, nivel, c, n) THEN Admitir(st1, n)
                 ELSE st1

\* lines 275-293: the neighbours of c, in the order dirs
RECURSIVE Vecinos(_, _, _, _, _)
Vecinos(st, d, nivel, c, dirs) ==
    IF dirs = <<>> THEN st
    ELSE Vecinos(Examinar(st, d, nivel, c, Head(dirs)), d, nivel, c, Tail(dirs))

\* lines 270-293: the whole frontier, in list order (no cell after an
\* IndexError)
RECURSIVE Frontera(_, _, _, _)
Frontera(st, d, nivel, activos) ==
    IF st.error \/ activos = <<>> THEN st
    ELSE Frontera(Vecinos(st, d, nivel, Head(activos), Direcciones),
                  d, nivel, Tail(activos))

\* line 295: puntos_activos = nuevos_puntos
FronteraAcumulada(activos, nuevos) == activos \o nuevos
NuevaFrontera(activos, nuevos) == nuevos

\* lines 297-298: `if not puntos_activos: break`
NuncaSinActivos(activos) == FALSE
SinActivos(activos) == activos = <<>>

\* lines 267-298: the rounds from `it` on
RECURSIVE Rondas(_, _, _, _, _, _)
Rondas(inund, activos, d, nivel, p, it) ==
    IF ~QuedanPasos(it, p) THEN inund
    ELSE LET st == Frontera([inundacion |-> inund, nuevos |-> <<>>,
                             accesos |-> {}, error |-> FALSE],
                            d, nivel, activos)
         IN  IF SinActivos(NuevaFrontera(activos, st.nuevos)) THEN st.inundacion
             ELSE Rondas(st.inundacion, NuevaFrontera(activos, st.nuevos),
                         d, nivel, p, it + 1)

\* lines 252-300: the call as a function of its arguments (boolean array)
propagar_inundacion(d, s, nivel, p) ==
    Rondas(MarcarSemillas(d, s), NpWhere(s), d, nivel, p, -1)

----------------------------------------------------------------------------
\* Inputs

FormaChica == <<2, 2>>
FormaEscenario == <<5, 5>>

Mascara(shape, S) == Arr(shape, [c \in Celdas(shape) |-> IF c \in S THEN 1 ELSE 0])

\* small grids: every elevation assignment, at most two river cells, at most
\* one cell outside the watershed
Chicos ==
    { [dem |-> Arr(FormaChica, f), rio |-> Mascara(FormaChica, S),
       cuenca |-> Mascara(FormaChica, Celdas(FormaChica) \ F), pasos |-> p] :
        f \in [Celdas(FormaChica) -> 0 .. MaxElev],
        S \in {T \in SUBSET Celdas(FormaChica) : Cardinality(T) <= 2},
        F \in {T \in SUBSET Celdas(FormaChica) : Cardinality(T) <= 1},
        p \in 0 .. MaxPasos }

\* 5x5 flat grid, river at the centre, everything inside the watershed
DemPlano == Arr(FormaEscenario, [c \in Celdas(FormaEscenario) |-> 0])
Planos ==
    { [dem |-> DemPlano, rio |-> Mascara(FormaEscenario, {<<2, 2>>}),
       cuenca |-> Mascara(FormaEscenario, Celdas(FormaEscenario)), pasos |-> p] :
        p \in {10, PASOS} }

\* 5x5 grid with a wall of 100 m on column 3, river at (2, 0)
DemBarrera ==
    Arr(FormaEscenario,
        [c \in Celdas(FormaEscenario) |-> IF c[2] = 3 THEN 100 ELSE 0])
Barreras ==
    { [dem |-> DemBarrera, rio |-> Mascara(FormaEscenario, {<<2, 0>>}),
       cuenca |-> Mascara(FormaEscenario, Celdas(FormaEscenario)), pasos |-> p] :
        p \in (0 .. MaxPasos) \cup {3, 4, 10, PASOS} }

Escenarios == Chicos \cup Planos \cup Barreras

\* orders in which the eight neighbours may be examined
Invertida(s) == [k \in 1 .. Len(s) |-> s[Len(s) + 1 - k]]
PorColumnas ==
    [k \in 1 .. 9 |-> <<Deltas[((k - 1) % 3) + 1], Deltas[((k - 1) \div 3) + 1]>>]
Ordenes == {Direcciones, Invertida(Direcciones), PorColumnas, Invertida(PorColumnas)}

----------------------------------------------------------------------------
\* The script

\* no call of the air-quality script
Ninguna == [fn |-> "ninguna"]

InitInundacion(e, o, ns, t) ==
    /\ dem = e.dem
    /\ transform = t
    /\ rio_mask = e.rio
    /\ cuenca_mask = e.cuenca
    /\ pasos = e.pasos
    /\ orden = o
    /\ i = 0
    /\ nivel_agua = 0
    /\ semillas = ZerosLike(e.dem)
    /\ inundacion = ZerosLike(e.dem)
    /\ puntos_activos = <<>>
    /\ visitados = {}
    /\ nuevos_puntos = <<>>
    /\ iteracion = -1
    /\ admitidos = <<>>
    /\ niveles = ns
    /\ accesos = {}
    /\ rasters = <<>>
    /\ log_data = <<>>
    /\ pc = "nivel"

InitGeo(e, o, ns, t) ==
    /\ InitInundacion(e, o, ns, t)
    /\ entrada = Ninguna
    /\ salida = Ninguna

\* the pixel of the other specifications: 30 wide, 30 high, north up
Pixel == <<30, -30>>

InitLlamada(e, o, ns) == InitGeo(e, o, ns, Pixel)

\* number of levels the loop runs over
Niveles == IF NumNiveles < Len(niveles_agua) THEN NumNiveles ELSE Len(niveles_agua)

\* the script: the levels are those of niveles_agua
InitCon(e, o) == InitLlamada(e, o, SubSeq(niveles_agua, 1, Niveles))

Init == \E e \in Escenarios : InitCon(e, "codigo")

\* (the seeds of a level enlarged with the cells the previous level flooded)
IniciarNivelReutilizando ==
    /\ pc = "nivel"
    /\ i < Len(niveles)
    /\ nivel_agua' = niveles[i + 1]
    /\ semillas' = Arr(dem.shape, [c \in Celdas(dem.shape) |->
                        rio_mask.data[c] = 1 \/ inundacion.data[c]])
    /\ inundacion' = MarcarSemillas(dem, semillas')
    /\ puntos_activos' = NpWhere(semillas')
    /\ visitados' = {}
    /\ nuevos_puntos' = <<>>
    /\ iteracion' = -1
    /\ admitidos' = <<>>
    /\ accesos' = {}
    /\ pc' = "ronda"
    /\ UNCHANGED <<entrada, salida, dem, transform, rio_mask, cuenca_mask, pasos, orden, i, niveles, rasters,
                   log_data>>

\* lines 320-327 and 256-264: next level, seeds, entry of the call
IniciarNivel ==
    /\ pc = "nivel"
    /\ i < Len(niveles)
    /\ nivel_agua' = niveles[i + 1]
    /\ semillas' = IgualAUno(rio_mask)
    /\ inundacion' = MarcarSemillas(dem, semillas')
    /\ puntos_activos' = NpWhere(semillas')
    /\ visitados' = {}
    /\ nuevos_puntos' = <<>>
    /\ iteracion' = -1
    /\ admitidos' = <<>>
    /\ accesos' = {}
    /\ pc' = IF SemillaFuera(dem, semillas') THEN "IndexError" ELSE "ronda"
    /\ UNCHANGED <<entrada, salida, dem, transform, rio_mask, cuenca_mask, pasos, orden, i, niveles, rasters,
                   log_data>>

\* lines 267-268: a further round starts
IniciarRonda ==
    /\ pc = "ronda"
    /\ QuedanPasos(iteracion, pasos)
    /\ iteracion' = iteracion + 1
    /\ nuevos_puntos' = <<>>
    /\ visitados' = {}
    /\ pc' = "puntos"
    /\ UNCHANGED <<entrada, salida, dem, transform, rio_mask, cuenca_mask, pasos, orden, i, nivel_agua,
                   semillas, inundacion, puntos_activos, admitidos, niveles, accesos,
                   rasters, log_data>>

\* line 267: range(pasos) is exhausted
AgotarPasos ==
    /\ pc = "ronda"
    /\ ~QuedanPasos(iteracion, pasos)
    /\ pc' = "retorno"
    /\ UNCHANGED <<entrada, salida, dem, transform, rio_mask, cuenca_mask, pasos, orden, i, nivel_agua,
                   semillas, inundacion, puntos_activos, visitados, nuevos_puntos,
                   iteracion, admitidos, niveles, accesos, rasters, log_data>>

\* lines 270-293: one frontier cell and its eight neighbours
ProcesarPunto ==
    /\ pc = "puntos"
    /\ \E k \in (1 .. Len(puntos_activos)) \ visitados :
       \E dirs \in (IF orden = "codigo" THEN {Direcciones} ELSE Ordenes) :
          /\ orden = "codigo" => k = Cardinality(visitados) + 1
          /\ LET st == Vecinos([inundacion |-> inundacion, nuevos |-> nuevos_puntos,
                                accesos |-> accesos, error |-> FALSE],
                               dem, nivel_agua, puntos_activos[k], dirs)
             IN  /\ inundacion' = st.inundacion
                 /\ nuevos_puntos' = st.nuevos
                 /\ accesos' = st.accesos
                 /\ pc' = IF st.error THEN "IndexError" ELSE "puntos"
          /\ visitados' = visitados \cup {k}
    /\ UNCHANGED <<entrada, salida, dem, transform, rio_mask, cuenca_mask, pasos, orden, i, nivel_agua,
                   semillas, puntos_activos, iteracion, admitidos, niveles,
                   rasters, log_data>>

\* lines 295-298: the admitted cells become the frontier; an empty one ends the loop
FinRonda ==
    /\ pc = "puntos"
    /\ visitados = 1 .. Len(puntos_activos)
    /\ puntos_activos' = NuevaFrontera(puntos_activos, nuevos_puntos)
    /\ visitados' = {}
    /\ admitidos' = Append(admitidos, {nuevos_puntos[k] : k \in 1 .. Len(nuevos_puntos)})
    /\ pc' = IF SinActivos(puntos_activos') THEN "retorno" ELSE "ronda"
    /\ UNCHANGED <<entrada, salida, dem, transform, rio_mask, cuenca_mask, pasos, orden, i, nivel_agua,
                   semillas, inundacion, nuevos_puntos, iteracion, niveles, accesos,
                   rasters, log_data>>

\* (the product written back into the mask, as `cuenca_mask *= inundacion` would)
RetornarEnSitio ==
    /\ pc = "retorno"
    /\ Compatibles(inundacion.shape, cuenca_mask.shape)
    /\ LET masked == Multiplicar(AsUint8(inundacion), cuenca_mask)
       IN  /\ cuenca_mask' = masked
           /\ rasters' = Append(rasters, masked)
           /\ log_data' = Append(log_data, [Nivel_m |-> nivel_agua,
                                            Area_km2 |-> EntreUnMillon(
                                                NpSum(masked) * AreaCelda(transform)),
                                            Pixeles |-> NpSum(masked)])
    /\ i' = i + 1
    /\ pc' = "nivel"
    /\ UNCHANGED <<entrada, salida, dem, transform, rio_mask, pasos, orden, nivel_agua, semillas, inundacion,
                   puntos_activos, visitados, nuevos_puntos, iteracion, admitidos,
                   niveles, accesos>>

\* lines 300 and 330-348: return, watershed mask, raster and log entry
Retornar ==
    /\ pc = "retorno"
    /\ IF Compatibles(inundacion.shape, cuenca_mask.shape)
       THEN LET masked == Multiplicar(AsUint8(inundacion), cuenca_mask)
            IN  /\ rasters' = Append(rasters, masked)
                /\ log_data' = Append(log_data, [Nivel_m |-> nivel_agua,
                                                 Area_km2 |-> EntreUnMillon(
                                                     NpSum(masked) * AreaCelda(transform)),
                                                 Pixeles |-> NpSum(masked)])
                /\ i' = i + 1
                /\ pc' = "nivel"
       ELSE /\ pc' = "ValueError"
            /\ UNCHANGED <<rasters, log_data, i>>
    /\ UNCHANGED <<entrada, salida, dem, transform, rio_mask, cuenca_mask, pasos, orden, nivel_agua, semillas,
                   inundacion, puntos_activos, visitados, nuevos_puntos, iteracion,
                   admitidos, niveles, accesos>>

\* line 350: the loop over the levels is over
Terminar ==
    /\ pc = "nivel"
    /\ i >= Len(niveles)
    /\ pc' = "fin"
    /\ UNCHANGED <<entrada, salida, dem, transform, rio_mask, cuenca_mask, pasos, orden, i, nivel_agua,
                   semillas, inundacion, puntos_activos, visitados, nuevos_puntos,
                   iteracion, admitidos, niveles, accesos, rasters, log_data>>

Next ==
    \/ IniciarNivel
    \/ IniciarRonda
    \/ AgotarPasos
    \/ ProcesarPunto
    \/ FinRonda
    \/ Retornar
    \/ Terminar

Spec == Init /\ [][Next]_vars

\* the same script with the frontier cells and the neighbours taken in any order
EscenariosOrden ==
    {e \in Chicos : e.cuenca = Mascara(FormaChica, Celdas(FormaChica))}
        \cup {e \in Barreras : e.pasos \in {1, 2}}

InitOrden == \E e \in EscenariosOrden : InitCon(e, "libre")

SpecOrden == InitOrden /\ [][Next]_vars

\* the same script with the list of line 313 cut short or reordered: every
\* list without repetition of the first levels of niveles_agua
ListasDeNiveles ==
    {ns \in UNION {[1 .. n -> {niveles_agua[k] : k \in 1 .. Niveles}] : n \in 1 .. Niveles} :
        \A a, b \in 1 .. Len(ns) : ns[a] = ns[b] => a = b}

\* (small grids, largest budget, the river at a corner or on a diagonal, the
\* whole watershed or all of it but one cell)
EscenariosNiveles ==
    {e \in Chicos : /\ e.pasos = MaxPasos
                    /\ e.rio \in {Mascara(FormaChica, {<<0, 0>>}),
                                  Mascara(FormaChica, {<<0, 0>>, <<1, 1>>})}
                    /\ e.cuenca \in {Mascara(FormaChica, Celdas(FormaChica)),
                                     Mascara(FormaChica, Celdas(FormaChica) \ {<<0, 1>>})}}

\* pixels of two sizes, north up
Transformadas == {Pixel, <<2, -3>>}

InitNiveles ==
    \E e \in EscenariosNiveles : \E ns \in ListasDeNiveles : \E t \in Transformadas :
        InitGeo(e, "codigo", ns, t)

SpecNiveles == InitNiveles /\ [][Next]_vars

\* the scenarios whose watershed is the whole grid (the mask plays no part in
\* the propagation): every small grid, river and budget, and the 5x5 grids
EscenariosPasos ==
    {e \in Escenarios : \A c \in Celdas(e.cuenca.shape) : e.cuenca.data[c] = 1}

InitPasos == \E e \in EscenariosPasos : InitCon(e, "codigo")

SpecPasos == InitPasos /\ [][Next]_vars

\* the interpreter runs the script's next statement whenever there is one
\* (small grids with the river at the corner and the largest budget, one
\* small grid with no river cell, the 5x5 wall grid with budgets 0, 1 and 100)
EscenariosJusto ==
    {e \in Chicos : /\ e.pasos = MaxPasos
                    /\ e.cuenca = Mascara(FormaChica, Celdas(FormaChica))
                    /\ \/ e.rio = Mascara(FormaChica, {<<0, 0>>})
                       \/ /\ e.rio = Mascara(FormaChica, {})
                          /\ \A c \in Celdas(FormaChica) : e.dem.data[c] = 0}
        \cup {e \in Barreras : e.pasos \in {0, 1, PASOS}}

InitJusto == \E e \in EscenariosJusto : InitCon(e, "codigo")

SpecJusto == InitJusto /\ [][Next]_vars /\ WF_vars(Next)

\* calls outside the script's fixed arguments: masks whose shape differs from
\* dem's, a budget below 1, a level below 0.  propagar_inundacion (252-300)
\* checks none of its arguments, so each of these calls runs
FormasContrato == {<<2, 2>>, <<1, 2>>, <<2, 3>>}
NivelesContrato == <<-1, 1>>
Contratos ==
    { [dem |-> Arr(FormaChica, f), rio |-> Mascara(sr, {s}),
       cuenca |-> Mascara(sc, Celdas(sc) \ F), pasos |-> p] :
        f \in [Celdas(FormaChica) -> 0 .. MaxElev],
        sr \in FormasContrato, sc \in FormasContrato,
        s \in {<<0, 0>>, <<0, 1>>, <<1, 2>>}, F \in {{}, {<<0, 0>>}},
        p \in -1 .. MaxPasos }

InitContrato == \E e \in Contratos : InitLlamada(e, "codigo", NivelesContrato)

SpecContrato == InitContrato /\ [][Next]_vars

----------------------------------------------------------------------------
\* Vocabulary of the properties

Todas == Celdas(dem.shape)

\* the cells of the seed mask
Semillas == {c \in Todas : rio_mask.data[c] = 1}

\* the cells marked in the array the call builds
Inundadas == {c \in Todas : inundacion.data[c]}

\* the cells of the k-th written extent
Extension(k) == {c \in Todas : rasters[k].data[c] = 1}

\* the script is inside a call of propagar_inundacion
EnLlamada == pc \in {"ronda", "puntos", "retorno"}

\* n is one of the eight grid neighbours of c
Vecino8(c, n) ==
    /\ c \in Todas /\ n \in Todas /\ c # n
    /\ Abs(c[1] - n[1]) <= 1 /\ Abs(c[2] - n[2]) <= 1

\* the step from c to n is admissible at the level (half metres)
PasoAdmisible(c, n, nivel) ==
    /\ Vecino8(c, n)
    /\ Mitades(dem.data[n]) <= Mitades(dem.data[c]) + nivel
    /\ dem.data[n] >= dem.data[c] - 1

\* P and the cells one admissible step away from a cell of P
UnPasoMas(P, nivel) ==
    P \cup {n \in Todas : \E c \in P : PasoAdmisible(c, n, nivel)}

\* the cells a chain of at most k admissible steps reaches from S (the k-fold
\* image of S under UnPasoMas; nothing changes once a step adds no cell)
RECURSIVE Alcanzables(_, _, _)
Crecer(S, T, nivel, k) == IF T = S THEN S ELSE Alcanzables(T, nivel, k - 1)
Alcanzables(S, nivel, k) ==
    IF k <= 0 THEN S ELSE Crecer(S, UnPasoMas(S, nivel), nivel, k)

EsPlano ==
    /\ dem = DemPlano
    /\ Semillas = {<<2, 2>>}
    /\ cuenca_mask = Mascara(FormaEscenario, Celdas(FormaEscenario))

EsBarrera ==
    /\ dem = DemBarrera
    /\ Semillas = {<<2, 0>>}

----------------------------------------------------------------------------
\* Properties

\* C1: monotonicity in the water level.  Of two extents written for the same
\* grids and budget, the one of the lower level is contained in the one of
\* the higher level.
C1_Monotonia ==
    \A a, b \in 1 .. Len(rasters) :
        log_data[a].Nivel_m < log_data[b].Nivel_m => Extension(a) \subseteq Extension(b)

C1_Testigo ==
    /\ Len(rasters) >= 2
    /\ log_data[1].Nivel_m < log_data[2].Nivel_m
    /\ Extension(1) # {}
    /\ Extension(1) # Extension(2)

\* C2: soundness.  Every cell marked by the call is a seed or the end of a
\* chain of at most pasos admissible 8-connected steps that starts at a seed.
C2_Correccion ==
    EnLlamada => Inundadas \subseteq Alcanzables(Semillas, nivel_agua, pasos)

C2_Testigo ==
    /\ pc = "retorno"
    /\ Inundadas \ Semillas # {}
    /\ Inundadas # Todas

\* C3: completeness.  The array the call returns marks exactly the cells within
\* pasos admissible steps of the seeds, diagonal steps included.
C3_Completitud ==
    pc = "retorno" => Inundadas = Alcanzables(Semillas, nivel_agua, pasos)

\* a cell that only a diagonal step reaches has been marked
C3_Testigo ==
    /\ pc = "retorno"
    /\ \E n \in Inundadas \ Semillas :
          /\ \E c \in Inundadas : PasoAdmisible(c, n, nivel_agua)
          /\ \A c \in Todas :
                PasoAdmisible(c, n, nivel_agua) => c[1] # n[1] /\ c[2] # n[2]

\* C4: containment.  No written extent marks a cell outside the watershed mask.
C4_Contencion ==
    \A k \in 1 .. Len(rasters) :
        \A c \in Todas : cuenca_mask.data[c] = 0 => rasters[k].data[c] = 0

\* the call returned a marked cell outside the watershed, and the extent is written
C4_Testigo ==
    /\ pc = "nivel"
    /\ Len(rasters) >= 1
    /\ \E c \in Inundadas : cuenca_mask.data[c] = 0 /\ c \notin Semillas

\* C5: seed inclusion.  Seeds stay marked throughout the call, and every seed
\* inside the watershed is marked in every written extent.
C5_Semillas ==
    /\ EnLlamada => Semillas \subseteq Inundadas
    /\ \A k \in 1 .. Len(rasters) :
          \A c \in Semillas : cuenca_mask.data[c] = 1 => rasters[k].data[c] = 1

C5_Testigo ==
    /\ Len(rasters) >= 2
    /\ pasos > 0
    /\ \E c \in Semillas : cuenca_mask.data[c] = 1
    /\ \E c \in Semillas : cuenca_mask.data[c] = 0
    /\ Inundadas # Semillas

\* C6: order independence.  Whatever the order in which the frontier cells are
\* visited and their neighbours examined, the call returns the array that the
\* order of the source returns, also when the budget cuts it short.
C6_OrdenIndiferente ==
    pc = "retorno" =>
        inundacion = propagar_inundacion(dem, semillas, nivel_agua, pasos)

\* the budget ended a run whose frontier was built in another order than
\* row-major, the order the source builds it in from a single seed
C6_Testigo ==
    /\ orden = "libre"
    /\ pc = "retorno"
    /\ pasos = 1
    /\ ~QuedanPasos(iteracion, pasos)
    /\ Cardinality(Semillas) = 1
    /\ Len(puntos_activos) >= 2
    /\ \/ puntos_activos[1][1] > puntos_activos[2][1]
       \/ /\ puntos_activos[1][1] = puntos_activos[2][1]
          /\ puntos_activos[1][2] > puntos_activos[2][2]

\* C7: with a budget of 0 no round runs and the written extent is the seed
\* mask intersected with the watershed mask.
C7_PasosCero ==
    pasos = 0 =>
        /\ iteracion = -1
        /\ pc # "puntos"
        /\ \A k \in 1 .. Len(rasters) :
              Extension(k) = {c \in Semillas : cuenca_mask.data[c] = 1}

C7_Testigo ==
    /\ pasos = 0
    /\ Len(rasters) >= 1
    /\ Extension(1) # {}
    /\ Extension(1) # Semillas
    /\ \E c \in Semillas : \E n \in Todas \ Semillas : PasoAdmisible(c, n, nivel_agua)

\* C8: boundary safety.  Every neighbour index used to read or write an array
\* lies inside the grid, and no IndexError is raised.
C8_Limites ==
    /\ pc # "IndexError"
    /\ \A a \in accesos :
          0 <= a[1] /\ a[1] < dem.shape[1] /\ 0 <= a[2] /\ a[2] < dem.shape[2]

\* the four corners and an edge cell of the 5x5 grid have been processed
C8_Testigo ==
    /\ dem.shape = FormaEscenario
    /\ pc = "retorno"
    /\ Inundadas = Todas
    /\ puntos_activos = <<>>

\* C9: the flat 5x5 grid with the seed at (2, 2), level 1.0 and a budget of 10
\* is flooded entirely.
C9_Plano ==
    (EsPlano /\ pasos = 10 /\ nivel_agua = 2 /\ pc = "retorno") => Inundadas = Todas

C9_Testigo ==
    /\ EsPlano /\ pasos = 10 /\ nivel_agua = 2 /\ pc = "retorno"
    /\ Cardinality(Inundadas) = 25

\* C10: on the 5x5 grid with the 100 m wall on column 3 and the seed at (2, 0),
\* at level 1.0 no cell of columns 3 and 4 is ever marked, whatever the budget.
C10_Barrera ==
    (EsBarrera /\ nivel_agua = 2) =>
        /\ \A c \in Inundadas : c[2] < 3
        /\ \A k \in 1 .. Len(rasters) :
              log_data[k].Nivel_m = 2 => \A c \in Extension(k) : c[2] < 3

\* the flood has reached column 2, next to the wall, and the call is over
C10_Testigo ==
    /\ EsBarrera /\ nivel_agua = 2 /\ pc = "nivel"
    /\ Len(rasters) >= 2
    /\ pasos >= 3
    /\ \A c \in Todas : c[2] < 3 => c \in Extension(2)

----------------------------------------------------------------------------
\* Properties of calls outside the script's arguments

\* the three grids do not all have one shape
FormasDistintas ==
    ~(dem.shape = rio_mask.shape /\ dem.shape = cuenca_mask.shape)

\* C11: shape mismatch is rejected.  When dem, the seed mask and the
\* containment mask do not all have the same shape, no call is entered, no
\* extent is written, and nothing is broadcast or cut to dem's shape.
C11_FormasRechazadas ==
    FormasDistintas => ~EnLlamada /\ rasters = <<>>

C13_NivelNegativoRechazado ==
    nivel_agua < 0 => ~EnLlamada /\ rasters = <<>>

----------------------------------------------------------------------------
\* Properties of the rounds

\* the cells admitted in the rounds finished so far
Admitidas == UNION {admitidos[k] : k \in 1 .. Len(admitidos)}

\* the call returns with cells still on the frontier
Agotado == pc = "retorno" /\ puntos_activos # <<>>

\* C14: budget exhaustion is not an error.  When the call returns with a
\* non-empty frontier, exactly pasos rounds have run, the array holds the
\* seeds and every cell admitted in rounds 1..pasos, no more and no less, and
\* the script goes on to record that array, cut by the watershed, as the extent.
C14_Agotamiento ==
    [][/\ Agotado' =>
            /\ Len(admitidos') = pasos'
            /\ iteracion' = pasos' - 1
            /\ Inundadas' = Semillas' \cup Admitidas'
       /\ Agotado =>
            /\ pc' = "nivel"
            /\ Len(rasters') = Len(rasters) + 1
            /\ \A c \in Todas :
                 rasters'[Len(rasters')].data[c] =
                    IF c \in Semillas \cup Admitidas /\ cuenca_mask.data[c] = 1
                    THEN 1 ELSE 0]_vars

C14_Testigo ==
    /\ Len(rasters) >= 1
    /\ pasos >= 1
    /\ pc = "nivel"
    /\ puntos_activos # <<>>
    /\ Len(admitidos) = pasos
    /\ admitidos[pasos] # {}
    /\ \E c, n \in Todas : /\ inundacion.data[c] /\ ~inundacion.data[n]
                           /\ PasoAdmisible(c, n, nivel_agua)
    /\ Extension(Len(rasters)) = Semillas \cup Admitidas

----------------------------------------------------------------------------
\* Properties of runs at two levels

\* a | b of two boolean arrays of one shape
Unir(a, b) == Arr(a.shape, [c \in Celdas(a.shape) |-> a.data[c] \/ b.data[c]])

\* the level of the previous pass of the loop
NivelAnterior == niveles[i]

\* the call at the present level, seeded with the original seeds and the
\* cells the call at the previous level flooded
ConSemillasReutilizadas ==
    propagar_inundacion(
        dem,
        Unir(semillas, propagar_inundacion(dem, semillas, NivelAnterior, pasos)),
        nivel_agua, pasos)

\* C15 as stated: for levels L1 < L2, the run at L2 seeded with the original
\* seeds and the cells flooded at L1 returns the same array as the run at L2
\* from the original seeds alone.
C15_Reutilizacion ==
    pc = "retorno" /\ i >= 1 /\ NivelAnterior < nivel_agua =>
        ConSemillasReutilizadas = inundacion

\* the run has reached its fixed point within the budget: it ended on an
\* empty frontier, or at least no cell one admissible step away from its
\* extent is left dry
EnPuntoFijo ==
    puntos_activos = <<>> \/ UnPasoMas(Inundadas, nivel_agua) = Inundadas

\* C15: the same, provided the run at L2 from the original seeds alone has
\* reached its fixed point within the budget.
C15_ReutilizacionEnPuntoFijo ==
    pc = "retorno" /\ i >= 1 /\ NivelAnterior < nivel_agua /\ EnPuntoFijo =>
        ConSemillasReutilizadas = inundacion

C15_Testigo ==
    /\ pc = "retorno" /\ i >= 1 /\ NivelAnterior < nivel_agua
    /\ EnPuntoFijo
    /\ Semillas # {}
    /\ Alcanzables(Semillas, NivelAnterior, pasos) \notin {Semillas, Inundadas}
    /\ ConSemillasReutilizadas = inundacion

\* C16: termination and stop condition.  Every call returns; no more than
\* pasos rounds run; every finished round but the last admitted a cell, so no
\* round starts on a frontier that a round has emptied; and the call returns
\* only on an empty frontier or with pasos rounds run.
C16_Parada ==
    /\ [](/\ Len(admitidos) <= (IF pasos < 0 THEN 0 ELSE pasos)
          /\ iteracion < (IF pasos < 0 THEN 0 ELSE pasos)
          /\ \A k \in 1 .. Len(admitidos) - 1 : admitidos[k] # {}
          /\ pc = "puntos" /\ iteracion >= 1 => puntos_activos # <<>>
          /\ pc \in {"ronda", "puntos"} /\ Len(admitidos) >= 1 =>
                admitidos[Len(admitidos)] # {}
          /\ pc = "retorno" => puntos_activos = <<>> \/ Len(admitidos) = pasos)
    /\ (pc = "ronda") ~> (pc = "retorno")

C16_Testigo ==
    /\ pc = "retorno"
    /\ Len(admitidos) = 3
    /\ Len(admitidos) < pasos
    /\ admitidos[2] # {}
    /\ admitidos[3] = {}
    /\ puntos_activos = <<>>

----------------------------------------------------------------------------
\* Properties of one frontier cell's step

\* the frontier cell the next step of the round processes
Actual == puntos_activos[Cardinality(visitados) + 1]

\* the cells the sequence s holds
Elementos(s) == {s[k] : k \in 1 .. Len(s)}

\* C17: admission rule per step.  In the step that processes the frontier
\* cell c, an 8-neighbour n of c inside the grid becomes flooded and is
\* appended to the next frontier if and only if n was not flooded,
\* dem[n] <= dem[c] + nivel_agua and dem[n] >= dem[c] - 1.0, with c's own
\* elevation as the head; nothing else is marked or appended.
C17_Admision ==
    [][pc = "puntos" /\ pc' = "puntos" =>
         LET c == Actual
             R == {n \in Todas : /\ Vecino8(c, n)
                                 /\ ~inundacion.data[n]
                                 /\ Mitades(dem.data[n]) <= Mitades(dem.data[c]) + nivel_agua
                                 /\ dem.data[n] >= dem.data[c] - 1}
         IN  /\ \A n \in Todas : inundacion'.data[n] <=> inundacion.data[n] \/ n \in R
             /\ Len(nuevos_puntos') = Len(nuevos_puntos) + Cardinality(R)
             /\ SubSeq(nuevos_puntos', 1, Len(nuevos_puntos)) = nuevos_puntos
             /\ Elementos(nuevos_puntos') = Elementos(nuevos_puntos) \cup R]_vars

\* a cell admitted from a frontier cell that is not a seed, lying above every
\* seed's head
C17_Testigo ==
    /\ pc = "puntos"
    /\ iteracion >= 1
    /\ \E n \in Elementos(nuevos_puntos) :
          \A s \in Semillas : Mitades(dem.data[n]) > Mitades(dem.data[s]) + nivel_agua

\* the cells within k admissible steps of the seeds at the present level
Hasta(k) == Alcanzables(Semillas, nivel_agua, k)

\* C18: round separation.  The frontier processed in round k is exactly the
\* set of cells admitted in round k-1 (the seeds for round 1), each once; no
\* cell admitted in the round under way is on the frontier of that round; and
\* the cells admitted in round k are exactly those k admissible steps from the
\* seeds and no fewer (stated of every round, each time a round has finished).
C18_Rondas ==
    /\ pc = "puntos" =>
          /\ Len(admitidos) = iteracion
          /\ Elementos(puntos_activos) =
                (IF iteracion = 0 THEN Semillas ELSE admitidos[iteracion])
          /\ Cardinality(Elementos(puntos_activos)) = Len(puntos_activos)
          /\ Elementos(nuevos_puntos) \cap Elementos(puntos_activos) = {}
          /\ Elementos(nuevos_puntos) \subseteq Hasta(iteracion + 1) \ Hasta(iteracion)
    /\ pc \in {"ronda", "retorno"} =>
          \A k \in 1 .. Len(admitidos) : admitidos[k] = Hasta(k) \ Hasta(k - 1)

\* a round has processed its whole frontier, and a cell it admitted has an
\* admissible neighbour that stays dry until the next round
C18_Testigo ==
    /\ pc = "puntos"
    /\ visitados = 1 .. Len(puntos_activos)
    /\ \E n \in Elementos(nuevos_puntos) : \E m \in Todas :
          /\ PasoAdmisible(n, m, nivel_agua)
          /\ ~inundacion.data[m]

----------------------------------------------------------------------------
\* Properties of the watershed mask

\* the cells inside the watershed
Dentro == {c \in Todas : cuenca_mask.data[c] = 1}

\* the cells a chain of at most k admissible steps reaches from S without
\* leaving the watershed
RECURSIVE AlcanzablesDentro(_, _, _)
CrecerDentro(S, T, nivel, k) ==
    IF T = S THEN S ELSE AlcanzablesDentro(T, nivel, k - 1)
AlcanzablesDentro(S, nivel, k) ==
    IF k <= 0 THEN S ELSE CrecerDentro(S, UnPasoMas(S, nivel) \cap Dentro, nivel, k)

\* C19: containment is applied only as a final intersection.  The array the
\* call builds marks the cells within pasos admissible steps of the seeds
\* whatever the watershed mask says of the cells on the way, and each written
\* extent is that set cut to the watershed (stated each time a round has
\* finished and each time an extent has been written).
C19_SoloAlFinal ==
    /\ pc \in {"ronda", "retorno"} =>
          Admitidas \ Dentro = (Hasta(Len(admitidos)) \ Semillas) \ Dentro
    /\ pc = "nivel" =>
          \A k \in 1 .. Len(rasters) :
              Extension(k) =
                 Alcanzables(Semillas, log_data[k].Nivel_m, pasos) \cap Dentro

\* a written extent marks a cell inside the watershed that no chain staying
\* inside the watershed reaches from the seeds, all of which are inside
C19_Testigo ==
    /\ Semillas \subseteq Dentro
    /\ \E k \in 1 .. Len(rasters) :
          \E c \in Extension(k) :
              c \notin AlcanzablesDentro(Semillas, log_data[k].Nivel_m, pasos)

\* C20: inputs are read-only.  No step of a call, and no step of the level
\* loop with its multiplication by the watershed mask, changes dem, rio_mask
\* or cuenca_mask; the seed mask handed to a call is the same when the call
\* returns and when its extent is recorded; the steps of a round write the
\* call's own array only.
C20_SoloLectura ==
    [][/\ dem' = dem
       /\ rio_mask' = rio_mask
       /\ cuenca_mask' = cuenca_mask
       /\ EnLlamada => semillas' = semillas /\ semillas = IgualAUno(rio_mask)
       /\ pc = "puntos" /\ pc' = "puntos" /\ inundacion' # inundacion =>
             rasters' = rasters /\ log_data' = log_data]_vars

\* a call has flooded cells beyond the seeds, some outside the watershed, and
\* its extent has been multiplied by the mask and recorded
C20_Testigo ==
    /\ pc = "nivel"
    /\ Len(rasters) >= 2
    /\ Inundadas # Semillas
    /\ Extension(Len(rasters)) # Inundadas
    /\ Extension(Len(rasters)) # {}

----------------------------------------------------------------------------
\* Properties of the level loop

\* the extent of the level, computed from rio_mask, the level and the grids
ExtensionDe(nivel) ==
    Multiplicar(AsUint8(propagar_inundacion(dem, IgualAUno(rio_mask), nivel, pasos)),
                cuenca_mask)

\* C21: per-level independence.  The k-th raster and the k-th log entry are
\* those of the k-th level of the list: the raster is the extent the call
\* returns from rio_mask alone at that level, whatever levels came before it
\* and in whatever order, and the entry carries that level and that raster's sum.
C21_Independencia ==
    pc \in {"nivel", "fin"} =>
        /\ Len(rasters) = i /\ Len(log_data) = i
        /\ \A k \in 1 .. i :
              /\ rasters[k] = ExtensionDe(niveles[k])
              /\ log_data[k].Nivel_m = niveles[k]
              /\ log_data[k].Pixeles = NpSum(ExtensionDe(niveles[k]))

\* a lower level processed after a higher one, with a smaller extent
C21_Testigo ==
    /\ pc = "fin"
    /\ Len(rasters) >= 2
    /\ niveles[1] > niveles[2]
    /\ Extension(2) # Extension(1)
    /\ Extension(2) # {c \in Semillas : cuenca_mask.data[c] = 1}

\* the cells of the k-th raster that hold 1
Unos(k) == {c \in Celdas(rasters[k].shape) : rasters[k].data[c] = 1}

\* C22: derived pixel count and area.  Every cell of a written extent is 0 or
\* 1; the logged Pixeles is the number of cells that hold 1; the logged area
\* is that number times the area of one pixel (in km2: over 10^6); and of two
\* log entries the one of the lower level never has the larger count.
C22_PixelesYArea ==
    pc \in {"nivel", "fin"} =>
        /\ \A k \in 1 .. Len(log_data) :
              /\ \A c \in Celdas(rasters[k].shape) : rasters[k].data[c] \in {0, 1}
              /\ log_data[k].Pixeles = Cardinality(Unos(k))
              /\ log_data[k].Area_km2 =
                    <<Cardinality(Unos(k)) * Abs(transform[1]) * Abs(transform[2]),
                      1000000>>
        /\ \A a, b \in 1 .. Len(log_data) :
              log_data[a].Nivel_m <= log_data[b].Nivel_m =>
                  log_data[a].Pixeles <= log_data[b].Pixeles

\* two ascending levels with counts that differ, the flood larger than the
\* extent the watershed keeps
C22_Testigo ==
    /\ pc = "fin"
    /\ Len(log_data) >= 2
    /\ log_data[1].Nivel_m < log_data[2].Nivel_m
    /\ 0 < log_data[1].Pixeles
    /\ log_data[1].Pixeles < log_data[2].Pixeles
    /\ log_data[2].Pixeles < Cardinality(Inundadas)
    /\ log_data[2].Area_km2[1] = 6 * log_data[2].Pixeles

----------------------------------------------------------------------------
\* Properties of the budget

\* the cells an array marks
Marcadas(a) == {c \in Celdas(a.shape) : a.data[c]}

\* the cells the call floods with budget m, all else as in the present call
ConPasos(m) == Marcadas(propagar_inundacion(dem, semillas, nivel_agua, m))

\* budgets to compare the present one with
OtrosPasos == 0 .. MaxPasos + 2

\* P, the cells flooded with budget m, against those of the present call:
\* contained in them when m is smaller, containing them when m is larger, and
\* the same when m is larger and the present call ended on an empty frontier
EnOrdenConPasos(m, P) ==
    /\ m <= pasos => P \subseteq Inundadas
    /\ m >= pasos => Inundadas \subseteq P
    /\ m >= pasos /\ puntos_activos = <<>> => P = Inundadas

\* C23: monotonicity in the budget.  The array a call returns contains the
\* one of every smaller budget and is contained in the one of every larger
\* budget; and when the call ended on an empty frontier, every larger budget
\* returns the same array.
C23_MonotoniaEnPasos ==
    pc = "retorno" => \A m \in OtrosPasos : EnOrdenConPasos(m, ConPasos(m))

\* a call that ended on an empty frontier within its budget: a smaller
\* budget floods strictly less, a larger one the same
C23_Testigo ==
    /\ pc = "retorno"
    /\ pasos = 2
    /\ puntos_activos = <<>>
    /\ ConPasos(0) # ConPasos(1)
    /\ ConPasos(1) \subseteq Inundadas
    /\ ConPasos(3) = Inundadas

----------------------------------------------------------------------------
\* Properties of the frontier

\* the rounds finished so far that admitted at least one cell
RondasQueAdmiten == {k \in 1 .. Len(admitidos) : admitidos[k] # {}}

\* C24: frontier discipline.  Every cell of the current and of the next
\* frontier is marked flooded; no frontier holds a cell twice; the frontiers
\* of different rounds (the seeds, then the cells each round admitted) share
\* no cell; so the rounds that admit a cell are no more than the cells that
\* are not seeds.
C24_Frontera ==
    EnLlamada =>
        /\ Elementos(puntos_activos) \cup Elementos(nuevos_puntos) \subseteq Inundadas
        /\ Cardinality(Elementos(puntos_activos)) = Len(puntos_activos)
        /\ Cardinality(Elementos(nuevos_puntos)) = Len(nuevos_puntos)
        /\ \A k \in 1 .. Len(admitidos) :
              /\ admitidos[k] \cap Semillas = {}
              /\ \A j \in 1 .. k - 1 : admitidos[j] \cap admitidos[k] = {}
        /\ pc = "puntos" =>
              Elementos(nuevos_puntos) \cap (Semillas \cup Admitidas) = {}
        /\ Cardinality(RondasQueAdmiten) <= Cardinality(Todas \ Semillas)

\* a second round that admits cells while a seed is within an admissible
\* step of a cell of its frontier, under a budget larger than the grid
C24_Testigo ==
    /\ pc = "puntos"
    /\ pasos > Cardinality(Todas)
    /\ iteracion >= 1
    /\ nuevos_puntos # <<>>
    /\ \E c \in Elementos(puntos_activos) : \E n \in Semillas :
          PasoAdmisible(c, n, nivel_agua)

\* n lies within the envelope of round k: no higher than some seed plus k
\* times the level, no lower than some seed minus k metres
EnEnvolvente(n, k) ==
    /\ \E s \in Semillas : Mitades(dem.data[n]) <= Mitades(dem.data[s]) + k * nivel_agua
    /\ \E s \in Semillas : dem.data[n] >= dem.data[s] - k

\* C25: per-round elevation envelope.  Every cell admitted in round k is no
\* higher than the highest seed plus k times the level and no lower than the
\* lowest seed minus k times 1.0 m.
C25_Envolvente ==
    EnLlamada =>
        /\ \A k \in 1 .. Len(admitidos) : \A n \in admitidos[k] : EnEnvolvente(n, k)
        /\ pc = "puntos" =>
              \A n \in Elementos(nuevos_puntos) : EnEnvolvente(n, iteracion + 1)

\* a cell admitted in the second round lies above every seed by more than the
\* level
C25_Testigo ==
    /\ pc = "retorno"
    /\ Len(admitidos) >= 2
    /\ \E n \in admitidos[2] :
          \A s \in Semillas : Mitades(dem.data[n]) > Mitades(dem.data[s]) + nivel_agua

\* no neighbour of n inside the grid could admit n at the level
SinFuente(n, nivel) ==
    \A c \in Todas :
        Abs(c[1] - n[1]) <= 1 /\ Abs(c[2] - n[2]) <= 1 /\ c # n =>
            \/ Mitades(dem.data[n]) > Mitades(dem.data[c]) + nivel
            \/ dem.data[n] < dem.data[c] - 1

\* C26: local necessary condition.  A cell that is not a seed and that no
\* neighbour could admit at the level is never marked by the call and is in no
\* written extent of that level.
C26_CondicionLocal ==
    /\ EnLlamada =>
          \A n \in Todas \ Semillas : SinFuente(n, nivel_agua) => ~inundacion.data[n]
    /\ pc = "nivel" =>
          \A k \in 1 .. Len(rasters) :
              \A n \in Todas \ Semillas :
                  SinFuente(n, log_data[k].Nivel_m) => n \notin Extension(k)

\* a pit more than 1.0 m below all of its neighbours is dry at the return,
\* with every one of its neighbours flooded
C26_Testigo ==
    /\ pc = "retorno"
    /\ puntos_activos = <<>>
    /\ \E n \in Todas \ Semillas :
          /\ ~inundacion.data[n]
          /\ \A c \in Todas \ {n} : inundacion.data[c] /\ dem.data[n] < dem.data[c] - 1

----------------------------------------------------------------------------
\* The air-quality script (src/unnamed/part_000).  Real numbers are modelled
\* by integers; a value the code computes with pi, exp or a fractional power
\* is kept as the expression's parts.

\* the float 0.0
Cero == [tipo |-> "float", valor |-> 0]

\* line 451: if u <= 0 or sy <= 0 or sz <= 0
InvalidoEstricto(u, sy, sz) == u < 0 \/ sy < 0 \/ sz < 0
Invalido(u, sy, sz) == u <= 0 \/ sy <= 0 \/ sz <= 0

\* lines 435-457.  divisores lists the divisor of every division performed,
\* in order (the first one is to be read times pi)
modelo_gaussiano_pluma(x, y, z, Q, u, H, sy, sz) ==
    IF Invalido(u, sy, sz)
    THEN [valor |-> Cero, divisores |-> <<>>]
    ELSE [valor |-> [tipo |-> "formula",
                     term1 |-> <<Q, 2 * sy * sz * u>>,
                     term2 |-> <<-(y * y), 2 * sy * sy>>,
                     term3 |-> <<<<-((z - H) * (z - H)), 2 * sz * sz>>,
                                 <<-((z + H) * (z + H)), 2 * sz * sz>>>>],
          divisores |-> <<2 * sy * sz * u, 2 * sy * sy, 2 * sz * sz, 2 * sz * sz>>]

\* the arguments of the calls of modelo_gaussiano_pluma
EntradasPluma ==
    { [fn |-> "modelo_gaussiano_pluma", x |-> x, y |-> y, z |-> z, Q |-> Q,
       u |-> u, H |-> H, sy |-> sy, sz |-> sz] :
        x \in {100}, y \in {0, 1}, z \in {0, 2}, Q \in {0, 5}, H \in {0, 3},
        u \in -MaxMagnitud .. MaxMagnitud,
        sy \in -MaxMagnitud .. MaxMagnitud,
        sz \in -MaxMagnitud .. MaxMagnitud }

LlamarPluma ==
    /\ entrada.fn = "modelo_gaussiano_pluma"
    /\ salida = Ninguna
    /\ salida' = modelo_gaussiano_pluma(entrada.x, entrada.y, entrada.z, entrada.Q,
                                        entrada.u, entrada.H, entrada.sy, entrada.sz)
    /\ UNCHANGED <<entrada, dem, transform, rio_mask, cuenca_mask, pasos, orden, i,
                   nivel_agua, semillas, inundacion, puntos_activos, visitados,
                   nuevos_puntos, iteracion, admitidos, niveles, accesos, rasters,
                   log_data, pc>>

\* the flooding script's variables while the air-quality script runs
InundacionEnReposo ==
    InitInundacion([dem |-> DemPlano, rio |-> Mascara(FormaEscenario, {}),
                    cuenca |-> Mascara(FormaEscenario, {}), pasos |-> PASOS],
                   "codigo", <<>>, Pixel)

InitPluma ==
    /\ InundacionEnReposo
    /\ entrada \in EntradasPluma
    /\ salida = Ninguna

SpecPluma == InitPluma /\ [][LlamarPluma]_vars

\* C27: plume-model guard.  When u <= 0 or sigma_y <= 0 or sigma_z <= 0 the
\* call returns the float 0.0 and has performed no division, whatever x, y,
\* z, Q and H; otherwise it returns the formula's value, every divisor of
\* which is positive.
C27_Guarda ==
    entrada.fn = "modelo_gaussiano_pluma" /\ salida # Ninguna =>
        IF entrada.u <= 0 \/ entrada.sy <= 0 \/ entrada.sz <= 0
        THEN salida.valor = [tipo |-> "float", valor |-> 0] /\ salida.divisores = <<>>
        ELSE /\ salida.valor.tipo = "formula"
             /\ salida.valor.term1 = <<entrada.Q, 2 * entrada.sy * entrada.sz * entrada.u>>
             /\ Len(salida.divisores) = 4
             /\ \A k \in 1 .. 4 : salida.divisores[k] > 0

\* a call with a wind speed of exactly 0 and positive coefficients and
\* emission has returned
C27_Testigo ==
    /\ entrada.fn = "modelo_gaussiano_pluma"
    /\ salida # Ninguna
    /\ entrada.u = 0 /\ entrada.sy > 0 /\ entrada.sz > 0 /\ entrada.Q > 0
    /\ salida.valor.valor = 0

----------------------------------------------------------------------------
\* altura_efectiva_chimenea.  Heights in whole metres: a quotient or a root
\* is rounded down where the code rounds to the nearest float.

\* a float result
Float(v) == [tipo |-> "float", valor |-> v]

\* what a raised exception leaves in place of a result
Excepcion(nombre) == [tipo |-> nombre]

Min(a, b) == IF a <= b THEN a ELSE b

\* n ** (1/3) for n >= 0
RaizCubica(n) == CHOOSE r \in 0 .. 1290 : r * r * r <= n /\ n < (r + 1) * (r + 1) * (r + 1)

\* line 506
x_max == 2000

\* line 517: F_b = 9.81 * (d**2/4) * v_s * (dT/T_a), as numerator and divisor
NumeradorFb(d, v_s, dT) == 981 * d * d * v_s * dT
DivisorFb(T_a) == 400 * T_a

\* line 518, for u > 0: 1.6 * F_b**(1/3) * (x_max/u)**(2/3).  A negative
\* base makes the fractional power a complex number
AscensoFlotacion(d, v_s, dT, T_a, u) ==
    LET num == NumeradorFb(d, v_s, dT)
        den == DivisorFb(T_a)
    IN  IF (num < 0 /\ den > 0) \/ (num > 0 /\ den < 0)
        THEN [tipo |-> "complex"]
        ELSE Float((16 * RaizCubica(num \div den)
                       * RaizCubica((x_max \div u) * (x_max \div u))) \div 10)

\* line 524, for u > 0: 3.0 * d * (v_s/u)
AscensoMomento(d, v_s, u) == Float((3 * d * v_s) \div u)

\* lines 500-531
altura_efectiva_chimenea(H_fisica, v_s, d, T_s, T_a, u) ==
    LET dT == T_s - T_a
    IN  IF T_a = 0 THEN Excepcion("ZeroDivisionError")
        ELSE LET flotacion == IF dT > 0 /\ u > 0
                              THEN AscensoFlotacion(d, v_s, dT, T_a, u)
                              ELSE Float(0)
                 momento   == IF u > 0 THEN AscensoMomento(d, v_s, u) ELSE Float(0)
             IN  IF flotacion.tipo = "complex" THEN Excepcion("TypeError")
                 ELSE Float(Min(H_fisica + Max(flotacion.valor, momento.valor),
                                H_fisica * 2))

\* the arguments of the calls of altura_efectiva_chimenea: the stack of the
\* script (50 m, 15 m/s, 2.5 m rounded to 2, 150 C, 10 C, 4 m/s) and
\* others around it
EntradasAltura ==
    { [fn |-> "altura_efectiva_chimenea", H_fisica |-> H, v_s |-> v, d |-> d,
       T_s |-> Ts, T_a |-> Ta, u |-> u] :
        H \in {0, 1, 50}, v \in {0, 1, 15}, d \in {0, 2}, Ts \in {-10, 150},
        Ta \in {-5, 0, 10}, u \in (-MaxMagnitud .. MaxMagnitud) \cup {4} }

LlamarAltura ==
    /\ entrada.fn = "altura_efectiva_chimenea"
    /\ salida = Ninguna
    /\ salida' = altura_efectiva_chimenea(entrada.H_fisica, entrada.v_s, entrada.d,
                                          entrada.T_s, entrada.T_a, entrada.u)
    /\ UNCHANGED <<entrada, dem, transform, rio_mask, cuenca_mask, pasos, orden, i,
                   nivel_agua, semillas, inundacion, puntos_activos, visitados,
                   nuevos_puntos, iteracion, admitidos, niveles, accesos, rasters,
                   log_data, pc>>

InitAltura ==
    /\ InundacionEnReposo
    /\ entrada \in EntradasAltura
    /\ salida = Ninguna

SpecAltura == InitAltura /\ [][LlamarAltura]_vars

\* C28: effective stack height bounds.  For H_fisica >= 0 the call returns a
\* value from H_fisica to 2 * H_fisica, and exactly H_fisica when u <= 0.
C28_AlturaAcotada ==
    entrada.fn = "altura_efectiva_chimenea" /\ salida # Ninguna
        /\ entrada.H_fisica >= 0 =>
            /\ salida.tipo = "float"
            /\ entrada.H_fisica <= salida.valor
            /\ salida.valor <= 2 * entrada.H_fisica
            /\ entrada.u <= 0 => salida.valor = entrada.H_fisica

----------------------------------------------------------------------------
\* evaluacion_impacto_ambiental.  A concentration is [nan, v]: nan for the
\* float NaN, which every comparison answers with False.

\* lines 816-833: the dict of standards, each entry in its written order
estandares ==
    [SO2  |-> << <<"OMS_24h", 20>>, <<"OMS_1h", 40>>, <<"Bolivia_24h", 80>>,
                 <<"alerta", 150>> >>,
     PM10 |-> << <<"OMS_24h", 45>>, <<"Bolivia_24h", 150>>, <<"alerta", 250>> >>,
     NOx  |-> << <<"OMS_1h", 200>>, <<"Bolivia_1h", 400>>, <<"alerta", 600>> >>]

\* C_max <= valor
MenorOIgual(c, valor) == ~c.nan /\ c.v <= valor

\* line 851: "CUMPLE" if C_max <= valor else "EXCEDE"
CumplimientoEstricto(c, valor) == IF ~c.nan /\ c.v < valor THEN "CUMPLE" ELSE "EXCEDE"
Cumplimiento(c, valor) == IF MenorOIgual(c, valor) THEN "CUMPLE" ELSE "EXCEDE"

\* dict.get(clave, defecto)
Get(limites, clave, defecto) ==
    IF \E k \in 1 .. Len(limites) : limites[k][1] = clave
    THEN limites[CHOOSE k \in 1 .. Len(limites) : limites[k][1] = clave][2]
    ELSE defecto

\* lines 859-874
Impacto(c, limites) ==
    IF MenorOIgual(c, Get(limites, "OMS_24h", 100)) THEN "BAJO"
    ELSE IF MenorOIgual(c, Get(limites, "Bolivia_24h", 200)) THEN "MODERADO"
    ELSE IF MenorOIgual(c, Get(limites, "alerta", 300)) THEN "ALTO"
    ELSE "MUY ALTO"

\* lines 836-876: the lines of the comparison and the impact level printed
evaluacion_impacto_ambiental(C_max, contaminante) ==
    IF contaminante \in DOMAIN estandares
    THEN LET limites == estandares[contaminante]
         IN  [comparacion |-> [k \in 1 .. Len(limites) |->
                                  <<limites[k][1], limites[k][2],
                                    Cumplimiento(C_max, limites[k][2])>>],
              impacto |-> Impacto(C_max, limites)]
    ELSE [comparacion |-> <<>>, impacto |-> "ninguno"]

\* maximum concentrations at, just above and between the limits, and NaN
Concentraciones ==
    {[nan |-> FALSE, v |-> v] :
        v \in {0, 20, 21, 40, 41, 45, 46, 80, 81, 100, 101, 150, 151, 200, 201,
               250, 251, 300, 301, 400, 401, 600, 601}}
        \cup {[nan |-> TRUE, v |-> 0]}

EntradasImpacto ==
    { [fn |-> "evaluacion_impacto_ambiental", C_max |-> c, contaminante |-> q] :
        c \in Concentraciones, q \in {"SO2", "PM10", "NOx", "CO"} }

LlamarImpacto ==
    /\ entrada.fn = "evaluacion_impacto_ambiental"
    /\ salida = Ninguna
    /\ salida' = evaluacion_impacto_ambiental(entrada.C_max, entrada.contaminante)
    /\ UNCHANGED <<entrada, dem, transform, rio_mask, cuenca_mask, pasos, orden, i,
                   nivel_agua, semillas, inundacion, puntos_activos, visitados,
                   nuevos_puntos, iteracion, admitidos, niveles, accesos, rasters,
                   log_data, pc>>

InitImpacto ==
    /\ InundacionEnReposo
    /\ entrada \in EntradasImpacto
    /\ salida = Ninguna

SpecImpacto == InitImpacto /\ [][LlamarImpacto]_vars

\* the standards of the comparison printed as exceeded
Excedidos == {salida.comparacion[k][1] :
                 k \in {j \in 1 .. Len(salida.comparacion) :
                           salida.comparacion[j][3] = "EXCEDE"}}

\* C29: the impact level is consistent with the comparison.  For SO2, PM10
\* and NOx: BAJO only when every listed standard is CUMPLE, MODERADO only
\* when no Bolivian standard is EXCEDE, MUY ALTO exactly when the alerta
\* standard is EXCEDE.
C29_ImpactoCoherente ==
    /\ entrada.fn = "evaluacion_impacto_ambiental"
    /\ salida # Ninguna
    /\ entrada.contaminante \in {"SO2", "PM10", "NOx"}
    => /\ salida.impacto \in {"BAJO", "MODERADO", "ALTO", "MUY ALTO"}
       /\ salida.impacto = "BAJO" => Excedidos = {}
       /\ salida.impacto = "MODERADO" =>
             Excedidos \cap {"Bolivia_24h", "Bolivia_1h"} = {}
       /\ salida.impacto = "MUY ALTO" <=> "alerta" \in Excedidos

\* NOx, which has no 24 h keys, at a concentration between the default
\* limits of 100 and 200: MODERADO with every listed standard met
C29_Testigo ==
    /\ entrada.fn = "evaluacion_impacto_ambiental"
    /\ salida # Ninguna
    /\ entrada.contaminante = "NOx"
    /\ entrada.C_max.v = 150
    /\ salida.impacto = "MODERADO"
    /\ Excedidos = {}

============================================================================
